---- MODULE Spec2Model ----
(***************************************************************************)
(* Model of the live-conversation core of the Rehearsal app (App component *)
(* in src/unnamed/part_000 and services/geminiService.ts).                 *)
(*                                                                         *)
(* React state and refs are the variables with the source's names.  The    *)
(* browser objects created by one handleBeginConversation invocation (the  *)
(* microphone stream, the two AudioContexts, the media source, the script  *)
(* processor and the live session) are identified by the slot k of that    *)
(* invocation; a ref holds NoSlot or a slot.  Handlers are operators from a*)
(* store record to a store record so that a handler that calls another     *)
(* handler is one action.  Closures are modelled by what they captured:    *)
(* the callbacks handed to startConversation read the status, scenario and *)
(* isNpcSpeaking of the render in which handleBeginConversation was called.*)
(***************************************************************************)
EXTENDS Integers, Sequences, FiniteSets, TLC

\* ---- bounds -------------------------------------------------------------
MaxBegin   == 2   \* handleBeginConversation invocations alive at once
MaxInFlight == 2  \* awaited calls (generation, summary, begin) pending at once
MaxChunks  == 3   \* inbound chunks entering playAudioChunk per output context
MaxClock   == 2   \* ticks of an output context's currentTime
MaxFrames  == 2   \* frames produced per script processor
MaxText    == 2   \* fragments held by the transcript
MaxCompleted == 1 \* completed rehearsals recorded
MaxSamples == 2   \* samples of a frame given to createBlob

\* The delay of the inactivity timer (part_000:666), counted in steps of
\* TimerTick.
TimerDelay == 2

Null == "null"   \* a null string or object
NoSlot == 0      \* a null ref to a browser object
Slots == 1..MaxBegin
Durs == {1, 2}
Scenarios == {"scnNpc", "scnUser"}
Speakers == {"user", "npc"}
TeardownSteps == {"sessionClose", "trackStop", "procDisconnect", "srcDisconnect",
                  "inCtxClose", "sourceStop", "outCtxClose"}

VARIABLES
  \* React state (part_000:82-97)
  status, scenario, transcript, result, error, isNpcSpeaking, isRecording,
  isStreetViewVisible,
  \* refs (part_000:104-113)
  liveSessionRef, inputAudioContextRef, outputAudioContextRef, nextStartTimeRef,
  scriptProcessorRef, localStreamRef, mediaStreamSourceRef, audioSourcesRef,
  \* browser objects, per slot; the kinds of object left open that nothing
  \* references any more
  sess, stream, inCtx, outCtx, srcConn, procConn, clock, waiting, playing, leaked,
  \* asynchronous invocations in flight
  hbc, genPending, sumPending,
  \* chunks that entered playAudioChunk per output context; frames produced per
  \* processor, chained on a pending session promise, and sent to the session
  arrived, produced, deferred, delivered,
  \* generateImage calls pending, per transcript index they will write to
  imgPending,
  \* the hint shown, the inactivity timer (with the status and scenario its
  \* callback closes over and the time left), generateHint calls pending
  hint, inactivityTimer, hintPending,
  \* generateMapMarkerTitle calls pending, and the number of completed
  \* rehearsals recorded
  titlePending, completedRehearsals,
  \* a frame of input samples and the 16-bit values createBlob makes of it
  samples, int16,
  \* teardown steps that fail in the environment
  faults

storeVars == <<status, scenario, transcript, result, error, isNpcSpeaking, isRecording,
  isStreetViewVisible, liveSessionRef, inputAudioContextRef, outputAudioContextRef,
  nextStartTimeRef, scriptProcessorRef, localStreamRef, mediaStreamSourceRef,
  audioSourcesRef, sess, stream, inCtx, outCtx, srcConn, procConn, clock, waiting,
  playing, leaked, hbc, genPending, sumPending, arrived, produced, deferred, delivered,
  imgPending, hint, inactivityTimer, hintPending, titlePending, completedRehearsals,
  samples, int16>>

vars == <<storeVars, faults>>

Max(a, b) == IF a >= b THEN a ELSE b

\* The store: every variable a handler can read or write, as one record.
Cur ==
  [status |-> status, scenario |-> scenario, transcript |-> transcript,
   result |-> result, error |-> error, isNpcSpeaking |-> isNpcSpeaking,
   isRecording |-> isRecording, isStreetViewVisible |-> isStreetViewVisible,
   liveSessionRef |-> liveSessionRef, inputAudioContextRef |-> inputAudioContextRef,
   outputAudioContextRef |-> outputAudioContextRef, nextStartTimeRef |-> nextStartTimeRef,
   scriptProcessorRef |-> scriptProcessorRef, localStreamRef |-> localStreamRef,
   mediaStreamSourceRef |-> mediaStreamSourceRef, audioSourcesRef |-> audioSourcesRef,
   sess |-> sess, stream |-> stream, inCtx |-> inCtx, outCtx |-> outCtx,
   srcConn |-> srcConn, procConn |-> procConn, clock |-> clock, waiting |-> waiting,
   playing |-> playing, leaked |-> leaked, hbc |-> hbc, genPending |-> genPending, sumPending |-> sumPending,
   arrived |-> arrived, produced |-> produced,
   deferred |-> deferred, delivered |-> delivered, imgPending |-> imgPending,
   hint |-> hint, inactivityTimer |-> inactivityTimer, hintPending |-> hintPending,
   titlePending |-> titlePending, completedRehearsals |-> completedRehearsals,
   samples |-> samples, int16 |-> int16,
   faults |-> faults, threw |-> FALSE, newTranscript |-> FALSE, steps |-> <<>>]

FreeHbc == [pc |-> "none", isContinuing |-> FALSE, scenario |-> Null,
            status |-> Null, isNpcSpeaking |-> FALSE]

Init ==
  /\ status = "idle" /\ scenario = Null /\ transcript = <<>> /\ result = Null
  /\ error = Null /\ isNpcSpeaking = FALSE /\ isRecording = FALSE
  /\ isStreetViewVisible = FALSE
  /\ liveSessionRef = NoSlot /\ inputAudioContextRef = NoSlot
  /\ outputAudioContextRef = NoSlot /\ nextStartTimeRef = 0
  /\ scriptProcessorRef = NoSlot /\ localStreamRef = NoSlot
  /\ mediaStreamSourceRef = NoSlot /\ audioSourcesRef = {}
  /\ sess = [k \in Slots |-> "none"] /\ stream = [k \in Slots |-> "none"]
  /\ inCtx = [k \in Slots |-> "none"] /\ outCtx = [k \in Slots |-> "none"]
  /\ srcConn = [k \in Slots |-> FALSE] /\ procConn = [k \in Slots |-> FALSE]
  /\ clock = [k \in Slots |-> 0] /\ waiting = [k \in Slots |-> <<>>]
  /\ playing = {} /\ leaked = {}
  /\ hbc = [k \in Slots |-> FreeHbc]
  /\ genPending = [start |-> 0, similar |-> 0] /\ sumPending = 0
  /\ arrived = [k \in Slots |-> 0]
  /\ produced = [k \in Slots |-> 0] /\ deferred = [k \in Slots |-> <<>>]
  /\ delivered = [k \in Slots |-> <<>>]
  /\ imgPending = [i \in 1..MaxText |-> 0]
  /\ hint = Null /\ hintPending = 0
  /\ titlePending = 0 /\ completedRehearsals = 0
  /\ samples = <<>> /\ int16 = <<>>
  /\ inactivityTimer = [armed |-> FALSE, left |-> TimerDelay, status |-> "idle",
                        scenario |-> Null, recStarted |-> FALSE, orphans |-> 0]
  /\ faults = {}

\* ---- teardown (part_000:155-197) -----------------------------------------
\* One teardown step each; a step listed in s.faults fails when it is run.
\* A failure inside try/catch (or a rejected close() promise with .catch) is
\* absorbed; a failure outside one sets threw and aborts the handler.
\* steps lists the teardown steps a handler has started, in the order it
\* started them.
Step(s, name) == [s EXCEPT !.steps = Append(@, name)]

closeLiveSession(s0) ==
  LET s == Step(s0, "sessionClose") IN
    LET k == s.liveSessionRef
        closed == IF k # NoSlot /\ "sessionClose" \notin s.faults
                  THEN [s EXCEPT !.sess[k] = IF @ = "open" THEN "closing" ELSE @]
                  ELSE s
    IN [closed EXCEPT !.liveSessionRef = NoSlot]

stopLocalStream(s0) ==
  LET s == Step(s0, "trackStop") IN
    LET k == s.localStreamRef
    IN IF k = NoSlot THEN s
       ELSE IF "trackStop" \in s.faults THEN [s EXCEPT !.threw = TRUE]
       ELSE [s EXCEPT !.stream[k] = "stopped", !.localStreamRef = NoSlot]

disconnectProcessor(s0) ==
  LET s == Step(s0, "procDisconnect") IN
    LET k == s.scriptProcessorRef
        done == IF k # NoSlot /\ "procDisconnect" \notin s.faults
                THEN [s EXCEPT !.procConn[k] = FALSE] ELSE s
    IN [done EXCEPT !.scriptProcessorRef = NoSlot]

disconnectSource(s0) ==
  LET s == Step(s0, "srcDisconnect") IN
    LET k == s.mediaStreamSourceRef
        done == IF k # NoSlot /\ "srcDisconnect" \notin s.faults
                THEN [s EXCEPT !.srcConn[k] = FALSE] ELSE s
    IN [done EXCEPT !.mediaStreamSourceRef = NoSlot]

closeInputContext(s0) ==
  LET s == Step(s0, "inCtxClose") IN
    LET k == s.inputAudioContextRef
        done == IF k # NoSlot /\ s.inCtx[k] # "closed" /\ "inCtxClose" \notin s.faults
                THEN [s EXCEPT !.inCtx[k] = "closed"] ELSE s
    IN [done EXCEPT !.inputAudioContextRef = NoSlot]

\* forEach(source => source.stop()) inside one try: the first stop() that
\* throws ends the loop, so no handle is stopped when the step fails.
stopAudioSources(s0) ==
  LET s == Step(s0, "sourceStop") IN
    LET done == IF "sourceStop" \notin s.faults
                THEN [s EXCEPT !.playing = @ \ s.audioSourcesRef] ELSE s
    IN [done EXCEPT !.audioSourcesRef = {}]

\* Closing an output context ends what it plays; its timeline is over, and
\* what was observed of it is dropped.  What becomes of the resume() promises
\* still pending on it is the browser's choice: it rejects them, or (with
\* "resumeKept") the resume already under way completes and they resolve.
closeOutputContext(s0) ==
  LET s == Step(s0, "outCtxClose") IN
    LET k == s.outputAudioContextRef
        done == IF k # NoSlot /\ s.outCtx[k] # "closed" /\ "outCtxClose" \notin s.faults
                THEN [s EXCEPT !.outCtx[k] = "closed",
                               !.waiting[k] = IF "resumeKept" \in s.faults THEN @ ELSE <<>>,
                               !.playing = {h \in @ : h.ctx # k},
                               !.clock[k] = 0, !.arrived[k] = 0]
                ELSE s
    IN [done EXCEPT !.outputAudioContextRef = NoSlot]

resetFlags(s) == [s EXCEPT !.isRecording = FALSE, !.isNpcSpeaking = FALSE]

cleanupAudioAndSession_SkipStream(s) ==
  LET s1 == closeLiveSession(s)
      s3 == disconnectProcessor(s1)
      s4 == disconnectSource(s3)
      s5 == closeInputContext(s4)
      s6 == stopAudioSources(s5)
      s7 == closeOutputContext(s6)
  IN resetFlags(s7)

cleanupAudioAndSession_Swapped(s) ==
  LET s1 == closeLiveSession(s)
      s2 == stopLocalStream(s1)
      s3 == disconnectProcessor(s2)
      s4 == disconnectSource(s3)
      s5 == closeInputContext(s4)
      s6 == closeOutputContext(s5)
      s7 == stopAudioSources(s6)
  IN IF s2.threw THEN s2 ELSE resetFlags(s7)

cleanupAudioAndSession(s) ==
  LET s1 == closeLiveSession(s)
      s2 == stopLocalStream(s1)
      s3 == disconnectProcessor(s2)
      s4 == disconnectSource(s3)
      s5 == closeInputContext(s4)
      s6 == stopAudioSources(s5)
      s7 == closeOutputContext(s6)
  IN IF s2.threw THEN s2 ELSE resetFlags(s7)

\* ---- handlers that end a rehearsal --------------------------------------
\* part_000:224-240
handleCloseRehearsal(s) ==
  LET s1 == cleanupAudioAndSession(s)
  IN IF s1.threw THEN s1
     ELSE [s1 EXCEPT !.isStreetViewVisible = FALSE, !.status = "idle",
                     !.scenario = Null, !.transcript = <<>>, !.result = Null,
                     !.error = Null]

\* part_000:450-458
handleExitToStreetView(s) ==
  LET s1 == cleanupAudioAndSession(s)
  IN IF s1.threw THEN s1
     ELSE [s1 EXCEPT !.status = "idle", !.scenario = Null, !.transcript = <<>>,
                     !.result = Null, !.error = Null]

\* part_000:271-286, up to the await of summarizeConversation.  st, sc and tr
\* are the status, scenario and transcript of the closure that is called.
handleEndConversation_NoShortcut(s, st, sc, tr) ==
  IF st = "summarizing" THEN s
  ELSE LET s1 == cleanupAudioAndSession([s EXCEPT !.status = "summarizing"])
       IN IF s1.threw THEN s1
          ELSE [s1 EXCEPT !.sumPending = @ + 1]

handleEndConversation(s, st, sc, tr) ==
  IF st = "summarizing" THEN s
  ELSE LET s1 == cleanupAudioAndSession([s EXCEPT !.status = "summarizing"])
       IN IF s1.threw THEN s1
          ELSE IF sc = Null \/ Len(tr) = 0 THEN handleCloseRehearsal(s1)
          ELSE [s1 EXCEPT !.sumPending = @ + 1]

\* ---- image directives (part_000:607-644) -------------------------------------
\* A text is the sequence of the fragments it was concatenated from; the
\* fragment "img" holds a directive "*shows image of ...*".
HasDirective(tx) == \E i \in 1..Len(tx) : tx[i] = "img"

\* text.replace(imageRegex, '').trim(): the first directive is removed.
RECURSIVE StripDirective(_)
StripDirective(tx) ==
  IF tx = <<>> THEN <<>>
  ELSE IF Head(tx) = "img" THEN Tail(tx)
  ELSE <<Head(tx)>> \o StripDirective(Tail(tx))

\* The effect on [transcript, scenario]: a directive in the last entry, when
\* that entry is the agent's and has no imageUrl yet, is removed from the text,
\* the entry is marked 'loading' and generateImage is called.  requests counts
\* the generateImage calls made for an entry.
imageEffect_NoGuard(s) ==
  LET n == Len(s.transcript)
  IN IF n = 0 THEN s
     ELSE IF s.transcript[n].speaker = "npc" /\ HasDirective(s.transcript[n].text)
     THEN [s EXCEPT !.transcript[n].text = StripDirective(@),
                    !.transcript[n].imageUrl = "loading",
                    !.transcript[n].requests = @ + 1,
                    !.imgPending[n] = @ + 1, !.newTranscript = TRUE]
     ELSE s

imageEffect(s) ==
  LET n == Len(s.transcript)
  IN IF n = 0 THEN s
     ELSE IF s.transcript[n].speaker = "npc" /\ s.transcript[n].imageUrl = "undefined"
             /\ HasDirective(s.transcript[n].text)
     THEN [s EXCEPT !.transcript[n].text = StripDirective(@),
                    !.transcript[n].imageUrl = "loading",
                    !.transcript[n].requests = @ + 1,
                    !.imgPending[n] = @ + 1, !.newTranscript = TRUE]
     ELSE s

\* ---- inactivity watchdog (part_000:651-678) ---------------------------------
\* part_000:651-656.  A cleared timer keeps the time it had left.  recStarted
\* records that recording was requested since the timer was set.
clearInactivityTimer(s) ==
  [s EXCEPT !.inactivityTimer = [armed |-> FALSE, left |-> @.left, status |-> "idle",
                                 scenario |-> Null, recStarted |-> FALSE,
                                 orphans |-> @.orphans]]

\* part_000:658-667: the callback closes over the status and scenario of the
\* render that made startInactivityTimer.  orphans counts the timers still
\* pending whose id inactivityTimerRef was overwritten with.
startInactivityTimer(s) ==
  LET c == clearInactivityTimer(s)
  IN [c EXCEPT
        !.inactivityTimer = [armed |-> TRUE, left |-> TimerDelay,
                             status |-> s.status, scenario |-> s.scenario,
                             recStarted |-> FALSE,
                             orphans |-> IF c.inactivityTimer.armed
                                         THEN 1 ELSE c.inactivityTimer.orphans]]

\* The effect of part_000:670-678 runs when one of isNpcSpeaking, isRecording,
\* status, hint, or scenario and transcript (through startInactivityTimer)
\* differs from the render before; its cleanup clears the timer first.
watchdogEffect_NoCancel(s) ==
  IF /\ s.isNpcSpeaking = isNpcSpeaking /\ s.isRecording = isRecording
     /\ s.status = status /\ s.hint = hint /\ s.scenario = scenario
     /\ s.transcript = transcript /\ ~s.newTranscript
  THEN s
  ELSE IF s.status = "active" /\ ~s.isNpcSpeaking /\ ~s.isRecording
       THEN startInactivityTimer(s)
       ELSE [s EXCEPT !.hint = Null]

watchdogEffect(s) ==
  IF /\ s.isNpcSpeaking = isNpcSpeaking /\ s.isRecording = isRecording
     /\ s.status = status /\ s.hint = hint /\ s.scenario = scenario
     /\ s.transcript = transcript /\ ~s.newTranscript
  THEN s
  ELSE LET c == clearInactivityTimer(s)
       IN IF c.status = "active" /\ ~c.isNpcSpeaking /\ ~c.isRecording
          THEN startInactivityTimer(c)
          ELSE [clearInactivityTimer(c) EXCEPT !.hint = Null]

\* ---- what follows every handler -------------------------------------------
\* part_000:563-568: the effect that closes the rehearsal when Street View is
\* not visible and the status is not Idle; it runs after each render.
streetViewEffect(s) ==
  IF ~s.isStreetViewVisible /\ s.status # "idle"
  THEN handleCloseRehearsal([s EXCEPT !.threw = FALSE]) ELSE s

\* A slot is forgotten once its invocation has returned, its session can call
\* back no more, no ref, handle or pending resume() names it and its processor
\* produces no frame: no step of the program can reach its objects again.
\* Those of its objects that are still open are remembered by kind in leaked.
Collectable(s, k) ==
  /\ s.hbc[k].pc = "done"
  /\ s.sess[k] \in {"none", "closed", "failed"}
  /\ k \notin {s.liveSessionRef, s.inputAudioContextRef, s.outputAudioContextRef,
               s.scriptProcessorRef, s.localStreamRef, s.mediaStreamSourceRef}
  /\ \A h \in s.audioSourcesRef \cup s.playing : h.ctx # k
  /\ s.waiting[k] = <<>>
  /\ ~(s.srcConn[k] /\ s.procConn[k] /\ s.inCtx[k] = "running")

StillOpen(s, k) ==
  {x \in {"stream"} : s.stream[k] = "live"}
    \cup {x \in {"inputContext"} : s.inCtx[k] = "running"}
    \cup {x \in {"outputContext"} : s.outCtx[k] \in {"suspended", "running"}}

\* The closure values of an invocation that nothing reads any more: the
\* scenario and isContinuing after the opening line was decided, isNpcSpeaking
\* once the session delivers no message, the status once it is closed.
Forget(s, k) ==
  LET h == s.hbc[k]
      returned == h.pc = "done"
  IN [h EXCEPT !.scenario = IF returned THEN Null ELSE @,
               !.isContinuing = IF returned THEN FALSE ELSE @,
               !.isNpcSpeaking = IF returned /\ s.sess[k] # "open" THEN FALSE ELSE @,
               !.status = IF returned /\ s.sess[k] \notin {"open", "closing"}
                          THEN Null ELSE @]

Collect(s0) ==
  LET s == [s0 EXCEPT !.hbc = [k \in Slots |-> Forget(s0, k)]]
      C == {k \in Slots : Collectable(s, k)}
      F(f, v) == [k \in Slots |-> IF k \in C THEN v ELSE f[k]]
  IN [s EXCEPT !.leaked = @ \cup UNION {StillOpen(s, k) : k \in C},
               !.sess = F(@, "none"), !.stream = F(@, "none"), !.inCtx = F(@, "none"),
               !.outCtx = F(@, "none"), !.srcConn = F(@, FALSE), !.procConn = F(@, FALSE),
               !.clock = F(@, 0), !.hbc = F(@, FreeHbc), !.arrived = F(@, 0),
               !.produced = F(@, 0), !.deferred = F(@, <<>>),
               !.delivered = F(@, <<>>)]

Commit(s) ==
  /\ status' = s.status /\ scenario' = s.scenario /\ transcript' = s.transcript
  /\ result' = s.result /\ error' = s.error /\ isNpcSpeaking' = s.isNpcSpeaking
  /\ isRecording' = s.isRecording /\ isStreetViewVisible' = s.isStreetViewVisible
  /\ liveSessionRef' = s.liveSessionRef
  /\ inputAudioContextRef' = s.inputAudioContextRef
  /\ outputAudioContextRef' = s.outputAudioContextRef
  /\ nextStartTimeRef' = s.nextStartTimeRef
  /\ scriptProcessorRef' = s.scriptProcessorRef /\ localStreamRef' = s.localStreamRef
  /\ mediaStreamSourceRef' = s.mediaStreamSourceRef
  /\ audioSourcesRef' = s.audioSourcesRef
  /\ sess' = s.sess /\ stream' = s.stream /\ inCtx' = s.inCtx /\ outCtx' = s.outCtx
  /\ srcConn' = s.srcConn /\ procConn' = s.procConn /\ clock' = s.clock
  /\ waiting' = s.waiting /\ playing' = s.playing /\ leaked' = s.leaked
  /\ hbc' = s.hbc
  /\ genPending' = s.genPending /\ sumPending' = s.sumPending
  /\ arrived' = s.arrived /\ produced' = s.produced
  /\ deferred' = s.deferred /\ delivered' = s.delivered
  /\ imgPending' = s.imgPending
  /\ hint' = s.hint /\ inactivityTimer' = s.inactivityTimer
  /\ hintPending' = s.hintPending
  /\ titlePending' = s.titlePending /\ completedRehearsals' = s.completedRehearsals
  /\ samples' = s.samples /\ int16' = s.int16

\* A handler's result, followed by the effects of the render it causes.
Finish(s) ==
  Commit(Collect(watchdogEffect(streetViewEffect(imageEffect(s))))) /\ UNCHANGED faults

\* ---- scenario generation (part_000:243-269, 431-448) --------------------
\* The handler invocations suspended at an await, and the close events that
\* session.close() or a channel error has left pending.
RECURSIVE SumTo(_, _)
SumTo(f, n) == IF n = 0 THEN 0 ELSE f[n] + SumTo(f, n - 1)

InFlight ==
  genPending.start + genPending.similar + sumPending + SumTo(imgPending, MaxText)
    + hintPending + titlePending
    + Cardinality({k \in Slots : hbc[k].pc \in {"mic", "connect", "speech"}})
    + Cardinality({k \in Slots : hbc[k].pc = "done" /\ sess[k] = "closing"})

StartGenerating(s) ==
  [s EXCEPT !.status = "generating", !.error = Null, !.transcript = <<>>,
            !.result = Null]

\* The "Rehearse Here" button is rendered when Street View is visible and the
\* status is Idle.  locOk: Street View returned a usable location.
handleRehearsalStartRequest(locOk) ==
  /\ isStreetViewVisible /\ status = "idle"
  /\ InFlight < MaxInFlight
  /\ LET s1 == [StartGenerating(Cur) EXCEPT !.scenario = Null]
     IN Finish(IF locOk THEN [s1 EXCEPT !.genPending.start = @ + 1]
               ELSE [s1 EXCEPT !.error = "scenarioError", !.status = "error"])

\* The "Try Similar Task" button of the feedback panel.
handleTrySimilarScenario ==
  /\ status = "paused" /\ result # Null /\ scenario # Null
  /\ InFlight < MaxInFlight
  /\ Finish([StartGenerating(Cur) EXCEPT !.genPending.similar = @ + 1])

\* The awaited generateScenario / generateSimilarScenario call settles.
ScenarioSettled_FailBriefs(kind, outcome) ==
  /\ genPending[kind] > 0
  /\ LET s1 == [Cur EXCEPT !.genPending[kind] = @ - 1]
     IN Finish(IF outcome = "fail"
               THEN [s1 EXCEPT !.error = "scenarioError", !.status = "briefing"]
               ELSE [s1 EXCEPT !.scenario = outcome, !.status = "briefing"])

ScenarioSettled(kind, outcome) ==
  /\ genPending[kind] > 0
  /\ LET s1 == [Cur EXCEPT !.genPending[kind] = @ - 1]
     IN Finish(IF outcome = "fail"
               THEN [s1 EXCEPT !.error = "scenarioError", !.status = "error"]
               ELSE [s1 EXCEPT !.scenario = outcome, !.status = "briefing"])

\* ---- ending (part_000:271-318) -------------------------------------------
EndConversationClick_AnyStatus ==
  /\ scenario # Null
  /\ InFlight < MaxInFlight
  /\ Finish(handleEndConversation(Cur, status, scenario, transcript))

\* The end button is enabled while the status is Active (part_000:908-911).
EndConversationClick ==
  /\ status = "active" /\ scenario # Null
  /\ InFlight < MaxInFlight
  /\ Finish(handleEndConversation(Cur, status, scenario, transcript))

\* summarizeConversation settles (part_000:283-285, 313-317).
\* locOk: Street View returns a location, so that a marker title is requested
\* (part_000:288-300).
SummarySettled(outcome, locOk) ==
  /\ sumPending > 0
  /\ LET s1 == [Cur EXCEPT !.sumPending = @ - 1]
     IN Finish(IF outcome = "fail"
               THEN [s1 EXCEPT !.error = "summaryError", !.status = "error"]
               ELSE [s1 EXCEPT !.result = outcome, !.status = "paused",
                               !.titlePending = IF locOk THEN @ + 1 ELSE @])

\* generateMapMarkerTitle settles (part_000:295-311): a title adds a completed
\* rehearsal, a failure is logged.
TitleSettled_FailErrors(outcome) ==
  /\ titlePending > 0
  /\ outcome # "fail" => completedRehearsals < MaxCompleted
  /\ LET s1 == [Cur EXCEPT !.titlePending = @ - 1]
     IN Finish(IF outcome = "fail"
               THEN [s1 EXCEPT !.error = "summaryError", !.status = "error"]
               ELSE [s1 EXCEPT !.completedRehearsals = @ + 1])

TitleSettled(outcome) ==
  /\ titlePending > 0
  /\ outcome # "fail" => completedRehearsals < MaxCompleted
  /\ LET s1 == [Cur EXCEPT !.titlePending = @ - 1]
     IN Finish(IF outcome = "fail" THEN s1
               ELSE [s1 EXCEPT !.completedRehearsals = @ + 1])

\* The exit button is rendered whenever the status is not Idle (part_000:817).
ExitToStreetViewClick ==
  /\ status # "idle"
  /\ Finish(handleExitToStreetView(Cur))

\* "New Rehearsal" of the feedback panel, "Return to Map" of the error panel.
CloseRehearsalClick ==
  /\ \/ status = "paused" /\ result # Null
     \/ status = "error" /\ error # Null
  /\ Finish(handleCloseRehearsal(Cur))

\* The user enters Street View (drops the pegman) or leaves it (part_000:549-568).
EnterStreetView ==
  /\ ~isStreetViewVisible
  /\ Finish([Cur EXCEPT !.isStreetViewVisible = TRUE])

LeaveStreetView ==
  /\ isStreetViewVisible
  /\ Finish([Cur EXCEPT !.isStreetViewVisible = FALSE])

\* ---- playback (part_000:117-152) -----------------------------------------
\* A chunk is its decoded duration and whether decode() / decodeAudioData
\* succeed on it.
ChunkInputs == {[dur |-> d, ok |-> TRUE] : d \in Durs} \cup {[dur |-> 1, ok |-> FALSE]}

\* part_000:126-151, the part of playAudioChunk after its awaits, run on the
\* context k the invocation read at entry.  A decode failure is caught.  A
\* handle records the context it plays on, the arrival number of its chunk on
\* that context, and its start and end on the timeline of that context.
scheduleChunk_FailAborts(s, k, c) ==
  IF ~c.ok THEN [s EXCEPT !.status = "error", !.error = "decodeError",
                          !.audioSourcesRef = {}]
  ELSE LET start == Max(s.nextStartTimeRef, s.clock[k])
           h == [ctx |-> k, arr |-> c.arr, start |-> start, end |-> start + c.dur]
       IN [s EXCEPT !.nextStartTimeRef = start + c.dur,
                    !.audioSourcesRef = @ \cup {h}, !.playing = @ \cup {h}]

scheduleChunk_NoMax(s, k, c) ==
  IF ~c.ok THEN s
  ELSE LET start == s.clock[k]
           h == [ctx |-> k, arr |-> c.arr, start |-> start, end |-> start + c.dur]
       IN [s EXCEPT !.nextStartTimeRef = start + c.dur,
                    !.audioSourcesRef = @ \cup {h}, !.playing = @ \cup {h}]

scheduleChunk(s, k, c) ==
  IF ~c.ok THEN s
  ELSE LET start == Max(s.nextStartTimeRef, s.clock[k])
           h == [ctx |-> k, arr |-> c.arr, start |-> start, end |-> start + c.dur]
       IN [s EXCEPT !.nextStartTimeRef = start + c.dur,
                    !.audioSourcesRef = @ \cup {h}, !.playing = @ \cup {h}]

\* part_000:118-124.  Without an output context the chunk is dropped.  On a
\* suspended context the invocation calls resume() and waits for its promise;
\* otherwise its only await is of the already computed decodeAudioData
\* result (part_000:50-67), which no other task can interleave with.
playAudioChunk(s, c) ==
  LET k == s.outputAudioContextRef
  IN IF k = NoSlot THEN s
     ELSE LET cc == [arr |-> s.arrived[k] + 1, dur |-> c.dur, ok |-> c.ok]
              s1 == [s EXCEPT !.arrived[k] = @ + 1]
          IN IF s.outCtx[k] = "suspended"
             THEN [s1 EXCEPT !.waiting[k] = Append(@, cc)]
             ELSE scheduleChunk(s1, k, cc)

CanPlay(s) ==
  IF s.outputAudioContextRef = NoSlot THEN TRUE
  ELSE s.arrived[s.outputAudioContextRef] < MaxChunks

\* The promise of the oldest pending resume() call on context k resolves and
\* its invocation continues (part_000:122-124).  Each resume() call is
\* answered by a task of its own, in call order; the context is running from
\* the first of them on.  A source started on a closed context is registered
\* but never plays and never ends.
ResumeResolved(k) ==
  /\ outCtx[k] \in {"suspended", "running", "closed"} /\ waiting[k] # <<>>
  /\ LET s1 == [Cur EXCEPT !.outCtx[k] = IF @ = "closed" THEN @ ELSE "running",
                           !.waiting[k] = Tail(@)]
         s2 == scheduleChunk(s1, k, Head(waiting[k]))
     IN Finish(IF outCtx[k] = "closed" THEN [s2 EXCEPT !.playing = s1.playing] ELSE s2)

\* currentTime of a running output context advances.
Tick(k) ==
  /\ outCtx[k] = "running" /\ clock[k] < MaxClock
  /\ Finish([Cur EXCEPT !.clock[k] = @ + 1])

\* source.onended (part_000:139-144) on natural completion of a handle.
SourceEnded_AlwaysSilent(h) ==
  /\ h \in playing /\ clock[h.ctx] >= h.end
  /\ Finish([Cur EXCEPT !.playing = @ \ {h}, !.audioSourcesRef = @ \ {h},
                        !.isNpcSpeaking = FALSE])

SourceEnded(h) ==
  /\ h \in playing /\ clock[h.ctx] >= h.end
  /\ LET left == audioSourcesRef \ {h}
     IN Finish([Cur EXCEPT !.playing = @ \ {h}, !.audioSourcesRef = left,
                           !.isNpcSpeaking = IF left = {} THEN FALSE ELSE @])

\* ---- transcript (part_000:346-368) -----------------------------------------
\* A text is the sequence of the fragments it was concatenated from.
Toks == {"a", "b"}

Entry(sp, tx, fin) ==
  [speaker |-> sp, text |-> tx, isFinal |-> fin, imageUrl |-> "undefined", requests |-> 0]

RECURSIVE TextLen(_)
TextLen(tr) ==
  IF tr = <<>> THEN 0
  ELSE Len(Head(tr).text) + Head(tr).requests + TextLen(Tail(tr))

\* The updater of onTranscriptUpdate (part_000:347-360).
appendFragment_Prepend(prev, frag) ==
  LET n == Len(prev)
  IN IF n > 0 /\ prev[n].speaker = frag.speaker /\ ~prev[n].isFinal
     THEN [prev EXCEPT ![n].text = @ \o frag.text]
     ELSE <<frag>> \o prev

appendFragment_IgnoreFinal(prev, frag) ==
  LET n == Len(prev)
  IN IF n > 0 /\ prev[n].speaker = frag.speaker
     THEN [prev EXCEPT ![n].text = @ \o frag.text]
     ELSE Append(prev, frag)

appendFragment(prev, frag) ==
  LET n == Len(prev)
  IN IF n > 0 /\ prev[n].speaker = frag.speaker /\ ~prev[n].isFinal
     THEN [prev EXCEPT ![n].text = @ \o frag.text]
     ELSE Append(prev, frag)

\* The updater of onTurnComplete (part_000:367).
finalizeAll_LastOnly(prev) ==
  [i \in 1..Len(prev) |-> IF i = Len(prev) THEN [prev[i] EXCEPT !.isFinal = TRUE]
                                           ELSE prev[i]]

finalizeAll(prev) == [i \in 1..Len(prev) |-> [prev[i] EXCEPT !.isFinal = TRUE]]

\* ---- beginning a conversation (part_000:321-429) -------------------------
FreeSlots == {k \in Slots : hbc[k].pc = "none"}

\* Buttons "Start Rehearsal" (Briefing panel, isContinuing = FALSE) and
\* "Continue Task" (feedback panel, isContinuing = TRUE), up to the await of
\* getUserMedia.  The invocation keeps the values of its closure.  k names the
\* objects this invocation will create: the first free slot.
handleBeginConversation(isContinuing, k) ==
  /\ scenario # Null
  /\ IF isContinuing THEN status = "paused" /\ result = "resCont"
                     ELSE status = "briefing"
  /\ k \in FreeSlots /\ (\A g \in FreeSlots : k <= g) /\ InFlight < MaxInFlight
  /\ LET s1 == [Cur EXCEPT !.status = "ready",
                           !.transcript = IF isContinuing THEN @ ELSE <<>>,
                           !.hbc[k] = [pc |-> "mic", isContinuing |-> isContinuing,
                                       scenario |-> scenario, status |-> status,
                                       isNpcSpeaking |-> isNpcSpeaking]]
     IN Finish(s1)

\* getUserMedia resolves: part_000:333-345, up to the await of sessionPromise.
\* A new AudioContext is suspended or running, as the autoplay policy decides.
MicGranted(k, outState) ==
  /\ hbc[k].pc = "mic"
  /\ Finish([Cur EXCEPT !.localStreamRef = k, !.stream[k] = "live",
                        !.inputAudioContextRef = k, !.inCtx[k] = "running",
                        !.mediaStreamSourceRef = k, !.scriptProcessorRef = k,
                        !.outputAudioContextRef = k, !.outCtx[k] = outState,
                        !.nextStartTimeRef = 0,
                        !.sess[k] = "connecting", !.hbc[k].pc = "connect"])

\* The catch of handleBeginConversation (part_000:420-428).
beginFailed_NoQuota(s, k, msg) ==
  [s EXCEPT !.error = IF msg = "none" THEN "genericStartError" ELSE msg,
            !.status = "error", !.hbc[k].pc = "done"]

beginFailed_NoStatus(s, k, msg) ==
  [s EXCEPT !.error = IF msg = "quota" THEN "quotaError"
                      ELSE IF msg = "none" THEN "genericStartError" ELSE msg,
            !.hbc[k].pc = "done"]

beginFailed(s, k, msg) ==
  [s EXCEPT !.error = IF msg = "quota" THEN "quotaError"
                      ELSE IF msg = "none" THEN "genericStartError" ELSE msg,
            !.status = "error", !.hbc[k].pc = "done"]

\* getUserMedia rejects.
MicDenied(k) ==
  /\ hbc[k].pc = "mic"
  /\ Finish(beginFailed(Cur, k, "micError"))

\* sessionPromise rejects; msg is what err.message holds.  The sends chained
\* on the promise (part_000:389-391) never run.
ConnectFailed(k, msg) ==
  /\ hbc[k].pc = "connect" /\ sess[k] \in {"connecting", "closing", "closed"}
  /\ Finish(beginFailed([Cur EXCEPT !.sess[k] = IF @ = "connecting" THEN "failed" ELSE @,
                                     !.deferred[k] = <<>>],
                        k, msg))

\* sessionPromise resolves: part_000:394-401, up to the await of
\* generateSpeech, then the sends that onaudioprocess had chained on the
\* promise (part_000:389-391), in the order they were chained.
ConnectOpened(k) ==
  /\ hbc[k].pc = "connect" /\ sess[k] = "connecting"
  /\ LET opening == hbc[k].scenario = "scnNpc" /\ ~hbc[k].isContinuing
         s1 == [Cur EXCEPT !.sess[k] = "open", !.liveSessionRef = k,
                           !.status = "active",
                           !.delivered[k] = @ \o deferred[k], !.deferred[k] = <<>>]
     IN Finish(IF opening
               THEN [s1 EXCEPT !.isNpcSpeaking = TRUE,
                               !.transcript = <<Entry("npc", <<"open">>, TRUE)>>,
                               !.hbc[k].pc = "speech"]
               ELSE [s1 EXCEPT !.hbc[k].pc = "done"])

\* generateSpeech for the opening line returns audio, which is played
\* (part_000:402-407).
SpeechPlayed(k, c) ==
  /\ hbc[k].pc = "speech" /\ CanPlay(Cur)
  /\ Finish(playAudioChunk([Cur EXCEPT !.hbc[k].pc = "done"], c))

\* generateSpeech returns null or throws (part_000:408-417).
SpeechFailed(k) ==
  /\ hbc[k].pc = "speech"
  /\ Finish([Cur EXCEPT !.hbc[k].pc = "done", !.isNpcSpeaking = FALSE])

\* The replay button of an agent entry (part_000:868-872):
\* generateSpeech(t.text, voice).then(playAudioChunk).  The panel that shows
\* the entries is rendered in Ready and Active (part_000:850).  The click and
\* the arrival of the audio are one step; a null answer makes playAudioChunk
\* return at once and is left out.  isNpcSpeaking is not written.
ReplaySpeech(c) ==
  /\ status \in {"active", "ready"} /\ scenario # Null
  /\ \E i \in 1..Len(transcript) : transcript[i].speaker = "npc"
  /\ CanPlay(Cur)
  /\ Finish(playAudioChunk(Cur, c))

\* ---- callbacks of the live session k (part_000:346-382) ------------------
onTranscriptUpdate(k, sp, tok) ==
  /\ sess[k] = "open" /\ TextLen(transcript) < MaxText
  /\ tok = "img" => InFlight < MaxInFlight
  /\ Finish([Cur EXCEPT !.transcript = appendFragment(@, Entry(sp, <<tok>>, FALSE)),
                        !.newTranscript = TRUE])

onTurnComplete(k) ==
  /\ sess[k] = "open"
  /\ Finish([Cur EXCEPT !.transcript = finalizeAll(@), !.newTranscript = TRUE])

onNpcAudio(k, c) ==
  /\ sess[k] = "open" /\ CanPlay(Cur)
  /\ LET s1 == IF ~hbc[k].isNpcSpeaking THEN [Cur EXCEPT !.isNpcSpeaking = TRUE] ELSE Cur
     IN Finish(playAudioChunk(s1, c))

\* The channel reports an error; its close event follows.
onError(k) ==
  /\ sess[k] \in {"connecting", "open"}
  /\ Finish(cleanupAudioAndSession([Cur EXCEPT !.sess[k] = "closing",
                                               !.error = "channelError",
                                               !.status = "error"]))

\* The close event of session k: the remote end closed an open session, or
\* the close that teardown or an error started has completed.  The callback
\* reads the status of its closure.
onClose_Ends(k) ==
  /\ sess[k] \in {"open", "closing"}
  /\ InFlight < MaxInFlight
  /\ LET s1 == [Cur EXCEPT !.sess[k] = "closed"]
     IN Finish(handleEndConversation(s1, status, hbc[k].scenario, transcript))

onClose(k) ==
  /\ sess[k] \in {"open", "closing"}
  /\ hbc[k].status = "active" => InFlight < MaxInFlight
  /\ LET s1 == [Cur EXCEPT !.sess[k] = "closed"]
     IN Finish(IF hbc[k].status = "active"
               THEN handleEndConversation(s1, hbc[k].status, hbc[k].scenario, <<>>)
               ELSE cleanupAudioAndSession(s1))

\* ---- capture (part_000:200-221, 385-392) -----------------------------------
startRecording(s) ==
  IF s.scriptProcessorRef = NoSlot \/ s.mediaStreamSourceRef = NoSlot
     \/ s.inputAudioContextRef = NoSlot \/ s.status # "active"
  THEN s
  ELSE [s EXCEPT !.srcConn[s.mediaStreamSourceRef] = TRUE,
                 !.procConn[s.scriptProcessorRef] = TRUE, !.isRecording = TRUE]

stopRecording(s) ==
  IF s.scriptProcessorRef = NoSlot \/ s.mediaStreamSourceRef = NoSlot THEN s
  ELSE [s EXCEPT !.procConn[s.scriptProcessorRef] = FALSE, !.isRecording = FALSE]

\* The microphone button is enabled while the status is Active and the agent
\* is not speaking (part_000:915-918).
handleMicToggle_NoClear ==
  /\ status = "active" /\ scenario # Null /\ ~isNpcSpeaking
  /\ Finish(IF isRecording THEN stopRecording(Cur)
            ELSE startRecording([Cur EXCEPT !.inactivityTimer.recStarted = TRUE,
                                            !.hint = Null]))

handleMicToggle ==
  /\ status = "active" /\ scenario # Null /\ ~isNpcSpeaking
  /\ Finish(IF isRecording THEN stopRecording(Cur)
            ELSE LET s1 == [Cur EXCEPT !.inactivityTimer.recStarted = TRUE]
                 IN startRecording([clearInactivityTimer(s1) EXCEPT !.hint = Null]))

\* ---- inactivity timer (part_000:658-667) ------------------------------------
\* Time passes on an armed timer, and with it the currentTime of every
\* running output context.
TimerTick ==
  /\ inactivityTimer.armed /\ inactivityTimer.left > 0
  /\ \A h \in playing : h.end > clock[h.ctx] => clock[h.ctx] < MaxClock
  /\ Commit([Cur EXCEPT !.inactivityTimer.left = @ - 1,
                        !.clock = [k \in Slots |->
                                     IF outCtx[k] = "running" /\ clock[k] < MaxClock
                                     THEN clock[k] + 1 ELSE clock[k]]])
  /\ UNCHANGED faults

\* The timeout callback runs, up to its await of generateHint.
TimerFired ==
  /\ inactivityTimer.armed /\ inactivityTimer.left = 0
  /\ InFlight < MaxInFlight
  /\ LET s1 == clearInactivityTimer(Cur)
     IN Commit(IF inactivityTimer.status = "active" /\ inactivityTimer.scenario # Null
               THEN [s1 EXCEPT !.hintPending = @ + 1] ELSE s1)
  /\ UNCHANGED faults

HintSettled_Unwatched(outcome) ==
  /\ hintPending > 0
  /\ LET s1 == [Cur EXCEPT !.hintPending = @ - 1]
     IN /\ Commit(Collect(IF outcome = "fail" THEN s1 ELSE [s1 EXCEPT !.hint = outcome]))
        /\ UNCHANGED faults

\* generateHint settles (part_000:663-664); a rejection is handled by nothing.
HintSettled(outcome) ==
  /\ hintPending > 0
  /\ LET s1 == [Cur EXCEPT !.hintPending = @ - 1]
     IN Finish(IF outcome = "fail" THEN s1 ELSE [s1 EXCEPT !.hint = outcome])

\* processor.onaudioprocess of slot k: the frame produced[k]+1 is chained on
\* the session promise of the same invocation.  A pending promise defers the
\* send; a rejected promise or a session that is no longer open never
\* delivers it.
onaudioprocess(k) ==
  /\ srcConn[k] /\ procConn[k] /\ inCtx[k] = "running"
  /\ produced[k] < MaxFrames
  /\ LET n == produced[k] + 1
         s1 == [Cur EXCEPT !.produced[k] = n]
     IN Finish(CASE sess[k] = "connecting" -> [s1 EXCEPT !.deferred[k] = Append(@, n)]
                 [] sess[k] = "open" -> [s1 EXCEPT !.delivered[k] = Append(@, n)]
                 [] OTHER -> s1)

\* generateImage for the request of index i settles (part_000:630-641): a url,
\* null, or a rejection, which nothing handles.
ImageSettled(i, outcome) ==
  /\ imgPending[i] > 0
  /\ LET s1 == [Cur EXCEPT !.imgPending[i] = @ - 1]
     IN Finish(IF outcome = "fail" THEN s1
               ELSE IF i > Len(transcript) THEN [s1 EXCEPT !.newTranscript = TRUE]
               ELSE [s1 EXCEPT !.newTranscript = TRUE, !.transcript[i].imageUrl =
                                  IF outcome = "null" THEN "error" ELSE outcome])

\* ---- createBlob (geminiService.ts:22-32) -------------------------------------
\* A Float32 sample is n / SampleDen; the samples chosen are exact in Float32,
\* and so are their products with Scale: (n / SampleDen) * Scale is
\* n / (SampleDen / Scale).
SampleDen == 65536
Scale == 32768
Samples == {0, 1, -1, 3, -3, 32768, 65535, 65536, 65537, 65538, 131072,
            -65535, -65536, -65537, -65538}

\* The integer part of n / d, rounded toward zero.
Trunc(n, d) == IF n >= 0 THEN n \div d ELSE -((-n) \div d)

\* The store into an Int16Array element: the integer part modulo 2^16, read as
\* a signed 16-bit value.
ToInt16(x) ==
  LET m == x % 65536 IN IF m >= 32768 THEN m - 65536 ELSE m

createBlob_Clamped(data) ==
  [i \in 1..Len(data) |->
     LET p == Trunc(data[i], SampleDen \div Scale)
     IN IF p > 32767 THEN 32767 ELSE IF p < -32768 THEN -32768 ELSE p]

createBlob(data) ==
  [i \in 1..Len(data) |-> ToInt16(Trunc(data[i], SampleDen \div Scale))]

\* The script processor hands a frame with one more sample to createBlob.
EncodeFrame(x) ==
  /\ Len(samples) < MaxSamples
  /\ LET data == Append(samples, x)
     IN Commit([Cur EXCEPT !.samples = data, !.int16 = createBlob(data)])
  /\ UNCHANGED faults

\* ---- failing teardown steps ------------------------------------------------
\* The browser call of one teardown step fails from now on.
SetFaults(F) ==
  /\ faults = {}
  /\ faults' = F
  /\ UNCHANGED storeVars

\* ---- specifications ---------------------------------------------------------
\* The user's buttons and the generation collaborators.
Controller ==
  \/ EnterStreetView
  \/ LeaveStreetView
  \/ \E ok \in BOOLEAN : handleRehearsalStartRequest(ok)
  \/ handleTrySimilarScenario
  \/ \E kind \in {"start", "similar"}, o \in Scenarios \cup {"fail"} : ScenarioSettled(kind, o)
  \/ EndConversationClick
  \/ \E o \in {"resCont", "resPlain", "fail"} : SummarySettled(o, FALSE)
  \/ ExitToStreetViewClick
  \/ CloseRehearsalClick

\* The continuations of handleBeginConversation.
BeginSteps ==
  \/ \E k \in Slots, o \in {"suspended", "running"} : MicGranted(k, o)
  \/ \E k \in Slots : MicDenied(k)
  \/ \E k \in Slots, m \in {"quota", "connectError", "none"} : ConnectFailed(k, m)
  \/ \E k \in Slots : ConnectOpened(k)
  \/ \E k \in Slots, c \in ChunkInputs : SpeechPlayed(k, c)
  \/ \E k \in Slots : SpeechFailed(k)

\* A conversation is begun once the objects of the one before are gone.
BeginOne == \E c \in BOOLEAN : handleBeginConversation(c, 1)

Channel ==
  \/ \E k \in Slots : onError(k)
  \/ \E k \in Slots : onClose(k)

Text ==
  \/ \E k \in Slots, sp \in Speakers, tok \in Toks : onTranscriptUpdate(k, sp, tok)
  \/ \E k \in Slots : onTurnComplete(k)

Audio ==
  \/ \E k \in Slots, c \in ChunkInputs : onNpcAudio(k, c)
  \/ \E k \in Slots : ResumeResolved(k)
  \/ \E k \in Slots : Tick(k)
  \/ \E h \in playing : SourceEnded(h)

\* The session controller with playback.
Next == Controller \/ BeginOne \/ BeginSteps \/ Channel \/ Audio

Spec == Init /\ [][Next]_vars

\* The session controller with the transcript callbacks.
NextText == Controller \/ BeginOne \/ BeginSteps \/ Channel \/ Text

SpecText == Init /\ [][NextText]_vars

\* One conversation at a time whose agent shows images.
NextImage ==
  \/ EnterStreetView
  \/ handleRehearsalStartRequest(TRUE)
  \/ \E o \in Scenarios : ScenarioSettled("start", o)
  \/ EndConversationClick
  \/ \E o \in {"resCont", "fail"} : SummarySettled(o, FALSE)
  \/ ExitToStreetViewClick
  \/ BeginOne
  \/ \E k \in Slots : MicGranted(k, "running")
  \/ \E k \in Slots : ConnectOpened(k)
  \/ \E k \in Slots : SpeechFailed(k)
  \/ Channel
  \/ \E k \in Slots, sp \in Speakers, tok \in {"a", "img"} : onTranscriptUpdate(k, sp, tok)
  \/ \E k \in Slots : onTurnComplete(k)
  \/ \E i \in 1..MaxText, o \in {"url", "null", "fail"} : ImageSettled(i, o)

SpecImage == Init /\ [][NextImage]_vars

\* One conversation at a time, summarized, with the marker title of the
\* completed rehearsal.
NextTitle ==
  \/ EnterStreetView
  \/ handleRehearsalStartRequest(TRUE)
  \/ \E o \in Scenarios : ScenarioSettled("start", o)
  \/ EndConversationClick
  \/ \E o \in {"resCont", "fail"} : SummarySettled(o, TRUE)
  \/ \E o \in {"title", "fail"} : TitleSettled(o)
  \/ ExitToStreetViewClick
  \/ BeginOne
  \/ \E k \in Slots : MicGranted(k, "running")
  \/ \E k \in Slots : ConnectOpened(k)
  \/ \E k \in Slots : SpeechFailed(k)
  \/ \E k \in Slots : onTranscriptUpdate(k, "user", "a")

SpecTitle == Init /\ [][NextTitle]_vars

\* createBlob on every frame of at most MaxSamples samples.
NextBlob == \E x \in Samples : EncodeFrame(x)

SpecBlob == Init /\ [][NextBlob]_vars

\* One conversation at a time with the inactivity watchdog.
NextHint ==
  \/ EnterStreetView
  \/ handleRehearsalStartRequest(TRUE)
  \/ \E o \in Scenarios : ScenarioSettled("start", o)
  \/ ExitToStreetViewClick
  \/ BeginOne
  \/ \E k \in Slots : MicGranted(k, "running")
  \/ \E k \in Slots : ConnectOpened(k)
  \/ \E k \in Slots, c \in ChunkInputs : SpeechPlayed(k, c)
  \/ \E k \in Slots : SpeechFailed(k)
  \/ Channel
  \/ \E k \in Slots, c \in ChunkInputs : onNpcAudio(k, c)
  \/ \E k \in Slots : Tick(k)
  \/ \E h \in playing : SourceEnded(h)
  \/ handleMicToggle
  \/ TimerTick
  \/ TimerFired
  \/ \E o \in {"hint", "fail"} : HintSettled(o)

SpecHint == Init /\ [][NextHint]_vars

\* One agent-led conversation whose entries can be replayed.
NextReplay ==
  \/ EnterStreetView
  \/ handleRehearsalStartRequest(TRUE)
  \/ ScenarioSettled("start", "scnNpc")
  \/ ExitToStreetViewClick
  \/ handleBeginConversation(FALSE, 1)
  \/ \E k \in Slots : MicGranted(k, "running")
  \/ \E k \in Slots : ConnectOpened(k)
  \/ \E k \in Slots, c \in ChunkInputs : SpeechPlayed(k, c)
  \/ \E k \in Slots : SpeechFailed(k)
  \/ \E k \in Slots, c \in ChunkInputs : onNpcAudio(k, c)
  \/ \E c \in ChunkInputs : ReplaySpeech(c)
  \/ \E k \in Slots : Tick(k)
  \/ \E h \in playing : SourceEnded(h)

SpecReplay == Init /\ [][NextReplay]_vars

\* What the steps the browser is bound to take do to the variable each is
\* about: Tick to the clock, SourceEnded to the playing sources, SpeechPlayed
\* and SpeechFailed to the invocation that awaits generateSpeech.
ClockAdvances == \E k \in Slots :
  /\ outCtx[k] = "running" /\ clock[k] < MaxClock
  /\ clock' = [clock EXCEPT ![k] = @ + 1]

EndedDelivered == \E h \in playing :
  /\ clock[h.ctx] >= h.end
  /\ playing' = playing \ {h} /\ status' = status

SpeechSettles == \E k \in Slots :
  /\ hbc[k].pc = "speech"
  /\ hbc' = [hbc EXCEPT ![k] = Forget([Cur EXCEPT !.hbc[k].pc = "done"], k)]

\* The same conversation under the scheduling the browser guarantees: the
\* clock of a running context advances, the ended event of a finished source
\* is delivered, and the pending generateSpeech call settles.  Nothing obliges
\* the user to act or the agent to send audio.
SpecLive ==
  /\ Init /\ [][NextReplay]_vars
  /\ WF_clock(ClockAdvances)
  /\ WF_playing(EndedDelivered)
  /\ WF_hbc(SpeechSettles)

\* One user-led conversation on an output context that starts suspended, in
\* a browser of either kind.
NextResume ==
  \/ EnterStreetView
  \/ handleRehearsalStartRequest(TRUE)
  \/ ScenarioSettled("start", "scnUser")
  \/ ExitToStreetViewClick
  \/ handleBeginConversation(FALSE, 1)
  \/ \E k \in Slots : MicGranted(k, "suspended")
  \/ \E k \in Slots : ConnectOpened(k)
  \/ \E k \in Slots, c \in ChunkInputs : onNpcAudio(k, c)
  \/ \E k \in Slots : ResumeResolved(k)
  \/ \E k \in Slots : Tick(k)
  \/ \E h \in playing : SourceEnded(h)
  \/ SetFaults({"resumeKept"})

SpecResume == Init /\ [][NextResume]_vars

\* Capture with conversations begun while earlier invocations are still
\* suspended: a user-led scenario, ended or left by the user.
NextCapture ==
  \/ EnterStreetView
  \/ handleRehearsalStartRequest(TRUE)
  \/ ScenarioSettled("start", "scnUser")
  \/ EndConversationClick
  \/ ExitToStreetViewClick
  \/ \E k \in Slots : handleBeginConversation(FALSE, k)
  \/ \E k \in Slots : MicGranted(k, "running")
  \/ \E k \in Slots : MicDenied(k)
  \/ \E k \in Slots : ConnectFailed(k, "connectError")
  \/ \E k \in Slots : ConnectOpened(k)
  \/ Channel
  \/ handleMicToggle
  \/ \E k \in Slots : onaudioprocess(k)

SpecCapture == Init /\ [][NextCapture]_vars

\* One conversation at a time, left by the user or ended by the channel, with
\* a teardown step that fails.
NextFault ==
  \/ EnterStreetView
  \/ handleRehearsalStartRequest(TRUE)
  \/ ScenarioSettled("start", "scnUser")
  \/ ExitToStreetViewClick
  \/ handleBeginConversation(FALSE, 1)
  \/ \E k \in Slots : MicGranted(k, "running")
  \/ \E k \in Slots : ConnectOpened(k)
  \/ Channel
  \/ \E k \in Slots : onNpcAudio(k, [dur |-> 1, ok |-> TRUE])
  \/ handleMicToggle
  \/ \E f \in TeardownSteps : SetFaults({f})

SpecFault == Init /\ [][NextFault]_vars
\* ---- properties -------------------------------------------------------------
\* Every ref to a session resource is null and no playback handle is registered.
RefsCleared ==
  /\ liveSessionRef = NoSlot /\ localStreamRef = NoSlot
  /\ scriptProcessorRef = NoSlot /\ mediaStreamSourceRef = NoSlot
  /\ inputAudioContextRef = NoSlot /\ outputAudioContextRef = NoSlot
  /\ audioSourcesRef = {}

\* C1: a chunk that playAudioChunk schedules on an output context starts no
\* earlier than currentTime of that context at scheduling time and no earlier
\* than the end of any chunk still scheduled on that context, so that
\* s_i >= s_(i-1) + d_(i-1) and no two scheduled chunks overlap.
C1_NoOverlap ==
  [][\A h \in playing' \ playing :
        /\ h.start >= clock[h.ctx]
        /\ \A g \in playing : g.ctx = h.ctx => h.start >= g.end]_vars

\* Two chunks are scheduled back to back on one context.
C1_Witness ==
  \E g, h \in playing : g.ctx = h.ctx /\ g.arr # h.arr /\ h.start = g.end

\* C2: inbound chunks never reorder: of two chunks scheduled on an output
\* context, the one that entered playAudioChunk first starts first, whatever
\* the interleaving of the resume() promises with later arrivals.
C2_ArrivalOrder ==
  \A a, b \in playing : (a.ctx = b.ctx /\ a.arr < b.arr) => a.start <= b.start

\* C3: the close event of the open live session, arriving while the status is
\* Active, runs the end flow: the status becomes Summarizing with a summary
\* requested, or Idle by the empty-session shortcut; the refs are cleared.
C3_RemoteCloseEnds ==
  [][\A k \in Slots :
        (status = "active" /\ liveSessionRef = k /\ sess[k] = "open" /\ onClose(k))
          => /\ \/ status' = "summarizing" /\ sumPending' = sumPending + 1
                \/ status' = "idle" /\ transcript = <<>>
             /\ RefsCleared']_vars

\* C4: a fatal error (denied microphone, failed channel connect, channel
\* error) sets the status to Error with a message and runs teardown: whenever
\* the status is Error a message is set and no ref to a session resource is.
C4_ErrorHoldsNothing ==
  status = "error" => (error # Null /\ RefsCleared)

\* C5: every step that moves the status away from Active runs teardown: after
\* it no ref to a session resource is set and capture is disarmed.
C5_LeavingActiveTearsDown ==
  [][(status = "active" /\ status' # "active") => (RefsCleared' /\ ~isRecording')]_vars

\* C6: in every reachable state cleanupAudioAndSession raises no failure,
\* leaves every ref null and the playback-handle set empty, and a second
\* call right after the first changes nothing.
C6_CleanupIdempotent ==
  LET r == cleanupAudioAndSession(Cur)
  IN /\ ~r.threw
     /\ r.liveSessionRef = NoSlot /\ r.localStreamRef = NoSlot
     /\ r.scriptProcessorRef = NoSlot /\ r.mediaStreamSourceRef = NoSlot
     /\ r.inputAudioContextRef = NoSlot /\ r.outputAudioContextRef = NoSlot
     /\ r.audioSourcesRef = {}
     /\ cleanupAudioAndSession([r EXCEPT !.steps = <<>>]) = r

\* Teardown has run on a live conversation (the stream is stopped, the session
\* is closing) and the pending close event will run it once more.
C6_Witness ==
  /\ RefsCleared
  /\ \E k \in Slots : sess[k] = "closing" /\ stream[k] = "stopped" /\ outCtx[k] = "closed"

\* C7: whichever teardown step fails, a handler that runs teardown (the exit
\* button, the channel error callback, the close callback) leaves every ref
\* cleared.
C7_TeardownContinues ==
  [][(ExitToStreetViewClick \/ \E k \in Slots : onError(k) \/ onClose(k))
       => RefsCleared']_vars

\* C8: a frame reaches session.sendRealtimeInput only in a step taken while
\* the status is Active and isRecording is true.
C8_ForwardOnlyWhenArmed ==
  [][\A k \in Slots :
        Len(delivered'[k]) > Len(delivered[k]) => (status = "active" /\ isRecording)]_vars

\* C9: the frames a script processor has produced are, in capture order and
\* once each, those sent to its session followed by those still chained on
\* the pending connect promise: no frame is lost, repeated or reordered.
C9_FramesDelivered ==
  \A k \in Slots : delivered[k] \o deferred[k] = [i \in 1..produced[k] |-> i]

\* C10: a fragment is concatenated onto the last entry, the number of entries
\* unchanged, when that entry exists, has the fragment's speaker and is not
\* final; otherwise exactly one entry is appended; no other entry changes.
C10_AppendRule ==
  [][\A k \in Slots, sp \in Speakers, tok \in Toks :
        onTranscriptUpdate(k, sp, tok) =>
          LET n == Len(transcript)
              merge == IF n = 0 THEN FALSE
                       ELSE transcript[n].speaker = sp /\ ~transcript[n].isFinal
          IN /\ merge => /\ Len(transcript') = n
                         /\ transcript'[n] =
                              [transcript[n] EXCEPT !.text = @ \o <<tok>>]
             /\ ~merge => /\ Len(transcript') = n + 1
                          /\ transcript'[n + 1] = Entry(sp, <<tok>>, FALSE)
             /\ \A i \in 1..n : (i < n \/ ~merge) => transcript'[i] = transcript[i]]_vars

\* Two fragments of one speaker were concatenated into one entry.
C10_Witness ==
  \E i \in 1..Len(transcript) : Len(transcript[i].text) = 2

\* C11: a turn-complete marker makes every entry final and changes nothing
\* else; a fragment never changes an entry that is final, and after a marker
\* it starts a new entry even when its speaker is that of the last entry.
C11_TurnBoundary ==
  [][/\ \A k \in Slots :
          onTurnComplete(k) =>
            /\ Len(transcript') = Len(transcript)
            /\ \A i \in 1..Len(transcript) :
                  /\ transcript'[i].isFinal
                  /\ transcript'[i].speaker = transcript[i].speaker
                  /\ transcript'[i].text = transcript[i].text
     /\ \A k \in Slots, sp \in Speakers, tok \in Toks :
          onTranscriptUpdate(k, sp, tok) =>
            /\ Len(transcript') >= Len(transcript)
            /\ \A i \in 1..Len(transcript) :
                  transcript[i].isFinal => transcript'[i] = transcript[i]
            /\ (transcript # <<>> /\ transcript[Len(transcript)].isFinal)
                  => Len(transcript') = Len(transcript) + 1]_vars

\* A fragment of the speaker of the last, finalized entry started a new entry.
C11_Witness ==
  \E i \in 1..Len(transcript) - 1 :
     /\ transcript[i].isFinal /\ ~transcript[i + 1].isFinal
     /\ transcript[i].speaker = transcript[i + 1].speaker

\* C12: at most one generateImage request is ever issued for a transcript
\* entry, whatever is concatenated to it or finalized after its imageUrl is
\* set.
C12_OneImageRequest ==
  \A i \in 1..Len(transcript) : transcript[i].requests <= 1

\* An entry whose image was requested has received a further fragment that
\* holds another directive.
C12_Witness ==
  \E i \in 1..Len(transcript) :
     /\ transcript[i].requests = 1 /\ HasDirective(transcript[i].text)

\* C13: an end request made with an empty transcript, or with no scenario,
\* leaves the status Idle through the close path and starts no summarization,
\* so nothing of that request can later set PausedForFeedback or Error.
C13_EmptyEndGoesIdle ==
  [][/\ (EndConversationClick /\ transcript = <<>>) =>
          /\ status' = "idle" /\ scenario' = Null /\ transcript' = <<>>
          /\ sumPending' = sumPending
          /\ liveSessionRef' = NoSlot
     /\ \A st \in {"active", "ready", "briefing", "idle"} :
          LET r == handleEndConversation(Cur, st, Null, transcript)
          IN r.status = "idle" /\ r.sumPending = sumPending]_vars

\* An active conversation with a live channel and nothing in its transcript,
\* on which an end request takes the close path.
C13_Witness ==
  /\ status = "active" /\ scenario # Null /\ transcript = <<>>
  /\ liveSessionRef # NoSlot /\ InFlight < MaxInFlight
  /\ handleEndConversation(Cur, status, scenario, transcript).status = "idle"

\* C14: when recording is started while the armed inactivity timer has run
\* part of its delay, that timer is cancelled: a timer found armed afterwards
\* is a new one with its whole delay ahead, and no timer that was armed when
\* recording was started ever fires.
C14_RecordingCancelsTimer ==
  [][/\ (handleMicToggle /\ ~isRecording /\ inactivityTimer.armed
           /\ inactivityTimer.left < TimerDelay) =>
          /\ hintPending' = hintPending
          /\ inactivityTimer'.armed => inactivityTimer'.left = TimerDelay
     /\ TimerFired => ~inactivityTimer.recStarted]_vars

\* Recording after a timer was cancelled with part of its delay elapsed.
C14_Witness ==
  /\ status = "active" /\ isRecording
  /\ ~inactivityTimer.armed /\ inactivityTimer.left < TimerDelay

\* C15: the timer's callback issues a hint request only when, as it fires, the
\* status is Active, the user is not recording and no agent audio is being
\* received or played.
C15_FireRechecks ==
  [][(TimerFired /\ hintPending' > hintPending) =>
       /\ status = "active" /\ ~isRecording /\ ~isNpcSpeaking
       /\ \A h \in playing : h.end <= clock[h.ctx]
       /\ \A k \in Slots : waiting[k] = <<>>]_vars

\* C16: at most one live session is alive at any time: never two open
\* channels and never two held microphone streams.
C16_OneLiveSession ==
  /\ Cardinality({k \in Slots : sess[k] = "open"}) <= 1
  /\ Cardinality({k \in Slots : stream[k] = "live"}) <= 1

\* C17: when getUserMedia rejects, the begin that asked for it fails: its catch
\* sets status Error with a message (which stays unless Street View is hidden
\* and the rehearsal is closed at once), the status is not Active, no channel
\* was or is opened for that begin, and the begin has returned.
C17_MicDeniedFails ==
  [][\A k \in Slots :
       MicDenied(k) =>
         /\ LET r == beginFailed(Cur, k, "micError")
            IN r.status = "error" /\ r.error # Null
         /\ IF isStreetViewVisible THEN status' = "error" /\ error' = "micError"
                                   ELSE status' = "idle"
         /\ sess[k] = "none" /\ sess'[k] = "none" /\ stream'[k] = "none"
         /\ liveSessionRef' # k /\ localStreamRef' # k
         /\ hbc'[k].pc \in {"done", "none"}]_vars

\* The microphone was denied and the status is Error with its message.
C17_Witness == status = "error" /\ error = "micError"

\* C18: the status becomes Active only from Ready.
C18_ActiveOnlyFromReady ==
  [][(status' = "active" /\ status # "active") => status = "ready"]_vars

\* C19: the close event of a session, arriving while the status is not Active,
\* runs teardown only: status, scenario, transcript, result and error are
\* unchanged and every ref is cleared; with nothing held, no resource changes.
C19_CloseOutsideActive ==
  [][\A k \in Slots :
       (onClose(k) /\ status # "active") =>
         /\ UNCHANGED <<status, scenario, transcript, result, error>>
         /\ RefsCleared'
         /\ (RefsCleared /\ audioSourcesRef = {}) =>
               LET r == cleanupAudioAndSession(Cur)
               IN /\ r.stream = stream /\ r.inCtx = inCtx /\ r.outCtx = outCtx
                  /\ r.srcConn = srcConn /\ r.procConn = procConn
                  /\ r.playing = playing /\ r.sess = sess]_vars

\* A session closed by teardown whose close event was delivered while a later
\* conversation, no longer Active, keeps its transcript.
C19_Witness ==
  /\ status \in {"summarizing", "paused", "error"} /\ transcript # <<>>
  /\ \E k \in Slots : sess[k] = "closed"

\* C20: after teardown no playback handle is registered or playing and
\* nextStartTime is 0.
C20_ForceStopResets ==
  outputAudioContextRef = NoSlot =>
    (audioSourcesRef = {} /\ playing = {} /\ nextStartTimeRef = 0)

\* C21: the steps of a teardown start in the fixed order channel close, track
\* stop, processor disconnect, source disconnect, input context close, playback
\* stop, output context close; an invocation that is aborted has started a
\* prefix of that order.
TeardownOrder ==
  <<"sessionClose", "trackStop", "procDisconnect", "srcDisconnect", "inCtxClose",
    "sourceStop", "outCtxClose">>

C21_TeardownOrdered ==
  LET r == cleanupAudioAndSession(Cur)
  IN /\ Len(r.steps) <= Len(TeardownOrder)
     /\ r.steps = SubSeq(TeardownOrder, 1, Len(r.steps))
     /\ ~r.threw => r.steps = TeardownOrder

\* Teardown is about to run with a channel open, capture armed and audio
\* playing.
C21_Witness ==
  /\ liveSessionRef # NoSlot /\ localStreamRef # NoSlot /\ audioSourcesRef # {}
  /\ cleanupAudioAndSession(Cur).steps = TeardownOrder

\* C22: an entry is 'loading' only while an image request for its index is
\* pending: once the request has completed, with a url, with null or with a
\* failure, the entry has left the pending state.
C22_LoadingHasRequest ==
  \A i \in 1..Len(transcript) :
     transcript[i].imageUrl = "loading" => imgPending[i] > 0

C24_SilentWhenEmpty ==
  [][\A h \in playing :
       SourceEnded(h) =>
          /\ audioSourcesRef' = audioSourcesRef \ {h}
          /\ IF audioSourcesRef \ {h} = {} THEN ~isNpcSpeaking'
                                          ELSE isNpcSpeaking' = isNpcSpeaking]_vars

\* The agent still counts as speaking while the second of two chunks plays
\* after the first has completed.
C24_Witness ==
  /\ status = "active" /\ isNpcSpeaking
  /\ \E h \in audioSourcesRef :
        /\ audioSourcesRef = {h} /\ h.arr = 2 /\ h.start > 0
        /\ clock[h.ctx] >= h.start /\ clock[h.ctx] < h.end

\* C25: at most one inactivity timer is pending, and one is pending only while
\* the status is Active, the user is not recording and the agent is not
\* speaking.
C25_TimerOnlyWhenQuiet ==
  /\ inactivityTimer.orphans = 0
  /\ inactivityTimer.armed =>
        (status = "active" /\ ~isRecording /\ ~isNpcSpeaking)

\* A timer is pending on a quiet conversation after an earlier one was
\* cancelled by the agent's audio and the audio has completed.
C25_Witness ==
  /\ inactivityTimer.armed /\ inactivityTimer.left < TimerDelay
  /\ \E k \in Slots : arrived[k] > 0 /\ outputAudioContextRef = k
  /\ audioSourcesRef = {}

\* C26: when generateScenario, generateSimilarScenario or summarizeConversation
\* fails, the handler sets status Error with a message (the rehearsal is closed
\* at once when Street View is hidden); the request sets no scenario and no
\* result, and the status is neither Briefing nor PausedForFeedback after it.
C26_GenerationFailureFatal ==
  [][/\ \A kind \in {"start", "similar"} :
          ScenarioSettled(kind, "fail") =>
            /\ IF isStreetViewVisible THEN status' = "error" /\ error' = "scenarioError"
                                      ELSE status' = "idle"
            /\ status' # "briefing"
            /\ scenario' = Null \/ scenario' = scenario
     /\ (\E locOk \in BOOLEAN : SummarySettled("fail", locOk)) =>
            /\ IF isStreetViewVisible THEN status' = "error" /\ error' = "summaryError"
                                      ELSE status' = "idle"
            /\ status' # "paused"
            /\ result' = Null \/ result' = result]_vars

\* Summarization has failed and the status is Error with its message.
C26_Witness == status = "error" /\ error = "summaryError" /\ scenario # Null

\* C27: a null or failed opening-line speech changes nothing but the speaking
\* flag, which it clears; a failed marker title changes neither the status
\* nor the result nor the error and records no completed rehearsal.
C27_NonCriticalFailures ==
  [][/\ \A k \in Slots :
          SpeechFailed(k) =>
            /\ ~isNpcSpeaking'
            /\ UNCHANGED <<status, scenario, transcript, result, error>>
     /\ TitleSettled("fail") =>
            UNCHANGED <<status, scenario, result, error, completedRehearsals>>]_vars

\* The feedback panel shows the summary, no rehearsal is recorded and no title
\* request is pending: the title request of this summary has failed.
C27_Witness ==
  /\ status = "paused" /\ result # Null /\ error = Null
  /\ completedRehearsals = 0 /\ titlePending = 0

\* C28: a fragment, a turn-complete marker and an image update keep every
\* entry in its place: the transcript does not get shorter, every entry keeps
\* its speaker, and every entry but the last keeps its text.
C28_OrderPreserved ==
  [][((\E k \in Slots, sp \in Speakers, tok \in {"a", "img"} :
          onTranscriptUpdate(k, sp, tok))
       \/ (\E k \in Slots : onTurnComplete(k))
       \/ (\E i \in 1..MaxText, o \in {"url", "null", "fail"} : ImageSettled(i, o)))
      => /\ Len(transcript') >= Len(transcript)
         /\ \A i \in 1..Len(transcript) :
               /\ transcript'[i].speaker = transcript[i].speaker
               /\ i < Len(transcript) => transcript'[i].text = transcript[i].text]_vars

\* The user's entry is followed by the agent's entry, whose image has arrived.
C28_Witness ==
  /\ Len(transcript) = 2
  /\ transcript[1].speaker = "user" /\ transcript[1].text = <<"a">>
  /\ transcript[2].speaker = "npc" /\ transcript[2].imageUrl = "url"

\* C29: when the session promise rejects, the status becomes Error (the
\* rehearsal is closed at once when Street View is hidden); the error is the
\* fixed quota message when the failure's message contains 'quota', the
\* failure's own message when it has another one, and the generic message when
\* it has none.
C29_QuotaMessage ==
  [][\A k \in Slots, m \in {"quota", "connectError", "none"} :
       ConnectFailed(k, m) =>
         IF isStreetViewVisible
         THEN /\ status' = "error"
              /\ m = "quota" => error' = "quotaError"
              /\ m = "connectError" => error' = "connectError"
              /\ m = "none" => error' = "genericStartError"
         ELSE status' = "idle"]_vars

\* Opening the channel failed on the quota and the quota message is shown.
C29_Witness == status = "error" /\ error = "quotaError"

\* C30: createBlob does not clamp: each 16-bit value is the integer part of
\* sample * 32768 modulo 2^16, read as signed; it is that integer part itself
\* when it lies in -32768..32767, and a sample of exactly 1.0 gives -32768.
C30_NoClamping ==
  /\ Len(int16) = Len(samples)
  /\ \A i \in 1..Len(samples) :
        LET p == Trunc(samples[i], SampleDen \div 32768)
        IN /\ int16[i] \in -32768..32767
           /\ (int16[i] - p) % 65536 = 0
           /\ p \in -32768..32767 => int16[i] = p
           /\ samples[i] = SampleDen => int16[i] = -32768

\* A frame holding the sample 1.0, encoded as -32768, and an in-range sample
\* with a fractional product.
C30_Witness ==
  /\ Len(samples) = 2
  /\ samples[1] = SampleDen /\ int16[1] = -32768
  /\ samples[2] = -3 /\ int16[2] = -1

\* C31: while the status is Idle the refs to the live session, the local
\* stream, the script processor, the media source and both audio contexts
\* are null.
C31_IdleHoldsNothing ==
  status = "idle" =>
    /\ liveSessionRef = NoSlot /\ localStreamRef = NoSlot
    /\ scriptProcessorRef = NoSlot /\ mediaStreamSourceRef = NoSlot
    /\ inputAudioContextRef = NoSlot /\ outputAudioContextRef = NoSlot

\* C32: the status leaves Idle only through a new start request; no late
\* completion of a scenario, summary or connect call moves it.
C32_IdleLeftOnlyByStart ==
  [][(status = "idle" /\ status' # "idle")
       => \E locOk \in BOOLEAN : handleRehearsalStartRequest(locOk)]_vars

\* C33: during an Active session, whenever a playback handle is outstanding
\* the agent-speaking flag is set.
C33_HandlesImplySpeaking ==
  (status = "active" /\ audioSourcesRef # {}) => isNpcSpeaking

\* C34: in an Active session, when the agent-speaking flag is set and no
\* handle is outstanding, no chunk waits for its context and no speech
\* request is pending, then the flag is cleared eventually, unless the
\* session ends or further audio is scheduled first.
C34_SpeakingEventuallyCleared ==
  (/\ status = "active" /\ isNpcSpeaking /\ audioSourcesRef = {}
   /\ \A k \in Slots : waiting[k] = <<>> /\ hbc[k].pc # "speech")
    ~> (~isNpcSpeaking \/ status # "active" \/ audioSourcesRef # {})

\* C35: while no output context is referenced (teardown has run and no new
\* session has created one) no playback handle is registered.
C35_NoHandleAfterTeardown ==
  outputAudioContextRef = NoSlot => audioSourcesRef = {}

\* C36: an image response writes imageUrl only on an entry that is waiting
\* for its image (marked "loading" by the directive that issued a request).
C36_ResponseHitsRequester ==
  [][\A i \in 1..MaxText, o \in {"url", "null"} :
        (ImageSettled(i, o) /\ i <= Len(transcript))
          => transcript[i].imageUrl = "loading"]_vars

\* C37: summarizeConversation is called only by a step that takes the status
\* from Active to Summarizing, one call per step; the status becomes Active
\* only when a begun conversation connects; and the close callback issues no
\* call.  So each conversation that ends is summarized at most once, and no
\* end request made while Summarizing or later issues a second call.
C37_OneSummary ==
  [][/\ sumPending' > sumPending
          => (sumPending' = sumPending + 1 /\ status = "active" /\ status' = "summarizing")
     /\ (status # "active" /\ status' = "active") => \E k \in Slots : ConnectOpened(k)
     /\ (\E k \in Slots : onClose(k)) => sumPending' = sumPending]_vars

\* The conversation is being summarized and the close callback that teardown
\* caused has been delivered.
C37_Witness ==
  /\ sumPending = 1 /\ status = "summarizing"
  /\ \A k \in Slots : sess[k] \notin {"connecting", "open", "closing"}

\* C38: isRecording is true only while the status is Active and the capture
\* resources (script processor, media source, input context) are referenced.
C38_RecordingOnlyActive ==
  isRecording =>
    /\ status = "active"
    /\ scriptProcessorRef # NoSlot /\ mediaStreamSourceRef # NoSlot
    /\ inputAudioContextRef # NoSlot

\* C39: a hint is shown only while the status is Active, the user is not
\* recording and the agent is not speaking.
C39_HintOnlyWhenQuiet ==
  hint # Null => (status = "active" /\ ~isRecording /\ ~isNpcSpeaking)

\* A hint was requested and the user has started recording before the
\* answer arrived.
C39_Witness ==
  hintPending > 0 /\ isRecording /\ status = "active" /\ hint = Null

\* C40: a fresh begin clears the transcript; a continuing begin keeps it,
\* plays no opening line, and the last entry it keeps is final, so that the
\* first fragment of the continued session starts a new entry (a fragment is
\* merged only into a last entry that is not final).
C40_ContinueStartsNewEntry ==
  [][/\ handleBeginConversation(FALSE, 1) => transcript' = <<>>
     /\ handleBeginConversation(TRUE, 1)
          => /\ transcript' = transcript
             /\ transcript # <<>> => transcript[Len(transcript)].isFinal
     /\ \A k \in Slots : (ConnectOpened(k) /\ hbc[k].isContinuing)
          => (transcript' = transcript /\ hbc'[k].pc # "speech")]_vars
====
